---------------------------- MODULE Spec2Model ----------------------------
(***************************************************************************)
(* AdviceModule (src/components/ui/card.jsx): the term highlighter         *)
(* processContent, the copy button with its timed "copied" flag, and the   *)
(* click handler that reveals a term's definition.                         *)
(*                                                                         *)
(* Text is a sequence of one-character strings.  Positions are JavaScript  *)
(* positions: 0-based, a span [from, to) holds the characters from+1..to   *)
(* of the TLA+ sequence.                                                   *)
(***************************************************************************)
EXTENDS Naturals, Sequences, FiniteSets

VARIABLES
    definitions,       \* props.definitions: entries in insertion order
    content,           \* props.content of each AdviceModule on the page, in document order
    mounted,           \* mounted[m]: module m has rendered
    threw,             \* threw[m]: the render of module m threw
    processedContent,  \* processedContent[m]: the parts of module m's render
    sourceSpans,       \* history: the [from, to) each part was sliced from
    hidden,            \* hidden[m]: indexes i whose Alert "definition-i" of module m carries class "hidden"
    copied,            \* copied[m]: the useState flag of module m
    writes,            \* writes[m]: clipboard.writeText promises of module m still pending
    timers,            \* pending setTimeout callbacks, in firing order
    copyCount,         \* number of clicks on a copy button so far
    lastClick,         \* history: <<m, index>> of the latest click on a term span (<<0, 0>>: none)
    lastCopy           \* history: lastCopy[m] is the id of module m's latest successful copy (0: none)

vars == <<definitions, content, mounted, threw, processedContent, sourceSpans, hidden,
          copied, writes, timers, copyCount, lastClick, lastCopy>>

-----------------------------------------------------------------------------
(* Bounds of the model *)

MaxTextLen == 3
MaxTermLen == 2
MaxTerms == 1
MaxWideTextLen == 3
MaxWideTermLen == 2
MaxWideTerms == 2
MaxSyntaxTextLen == 2
MaxSyntaxTermLen == 3
MaxSyntaxTerms == 2
NumModules == 2
MaxPageTextLen == 1
MaxPageTerms == 1
MaxCopies == 3

(* Characters: a word character, a literal non-word character and the       *)
(* alternation character of the pattern syntax; the wide alphabet adds an   *)
(* uppercase letter and the wildcard; the syntax alphabet has the grouping  *)
(* characters of the pattern syntax.                                        *)
Alphabet == {"a", " ", "|"}

WideAlphabet == Alphabet \cup {"A", "."}

SyntaxAlphabet == {"a", "|", "(", ")"}

SeqsUpTo(S, n) == UNION {[1..k -> S] : k \in 0..n}

Texts == SeqsUpTo(Alphabet, MaxTextLen)

Terms == SeqsUpTo(Alphabet, MaxTermLen)

WideTexts == SeqsUpTo(WideAlphabet, MaxWideTextLen)

WideTerms == SeqsUpTo(WideAlphabet, MaxWideTermLen)

SyntaxTexts == SeqsUpTo(SyntaxAlphabet, MaxSyntaxTextLen)

SyntaxTerms == SeqsUpTo(SyntaxAlphabet, MaxSyntaxTermLen)

-----------------------------------------------------------------------------
(* JavaScript strings *)

\* String.prototype.toLowerCase
ToLowerCase(c) == IF c = "A" THEN "a" ELSE c

\* Canonicalize of an ignoreCase pattern without the unicode flag: toUpperCase
Canonicalize(c) == IF c = "a" THEN "A" ELSE c

LowerCase(s) == [i \in 1..Len(s) |-> ToLowerCase(s[i])]

\* text.slice(from, to) for 0 <= from <= to <= length
Slice(s, from, to) == SubSeq(s, from + 1, to)

\* \w of the pattern syntax: [A-Za-z0-9_]
IsWordChar(c) == c \in {"a", "A"}

\* the assertion \b at position i of s
IsWordBoundary(s, i) ==
    LET before == i > 0 /\ IsWordChar(s[i])
        after == i < Len(s) /\ IsWordChar(s[i + 1])
    IN before # after

-----------------------------------------------------------------------------
(* The definitions object *)

\* the explanation stored under key k (an opaque non-empty text)
DefinitionText(k) == <<"definition", k>>

Undefined == <<"undefined">>

\* Object.keys(definitions): the keys in insertion order
ObjectKeys(defs) == [i \in 1..Len(defs) |-> defs[i].key]

KeySet(defs) == {defs[i].key : i \in 1..Len(defs)}

\* definitions[k]
Lookup(defs, k) ==
    IF \E i \in 1..Len(defs) : defs[i].key = k
    THEN (CHOOSE e \in {defs[i] : i \in 1..Len(defs)} : e.key = k).value
    ELSE Undefined

\* every object with at most n distinct keys out of keys, in every insertion order
ObjectsOver(keys, n) ==
    {[i \in 1..Len(ks) |-> [key |-> ks[i], value |-> DefinitionText(ks[i])]] :
        ks \in {s \in SeqsUpTo(keys, n) :
                    \A i, j \in 1..Len(s) : i # j => s[i] # s[j]}}

DefinitionMaps == ObjectsOver(Terms, MaxTerms)

WideDefinitionMaps == ObjectsOver(WideTerms, MaxWideTerms)

SyntaxDefinitionMaps == ObjectsOver(SyntaxTerms, MaxSyntaxTerms)

-----------------------------------------------------------------------------
(* processContent, line 27: the sort *)

\* comparator (a, b) => b.length - a.length : negative keeps a before b
RECURSIVE InsertByLength(_, _)
InsertByLength(x, s) ==
    IF s = <<>> THEN <<x>>
    ELSE IF Len(Head(s)) >= Len(x) THEN <<Head(s)>> \o InsertByLength(x, Tail(s))
    ELSE <<x>> \o s

\* Array.prototype.sort is stable: equal lengths keep their order
RECURSIVE SortTerms(_)
SortTerms(keys) ==
    IF keys = <<>> THEN <<>>
    ELSE InsertByLength(keys[Len(keys)], SortTerms(SubSeq(keys, 1, Len(keys) - 1)))

-----------------------------------------------------------------------------
(* processContent, line 29: the pattern *)

\* terms.join('|')
RECURSIVE Join(_)
Join(ts) ==
    IF ts = <<>> THEN <<>>
    ELSE IF Len(ts) = 1 THEN ts[1]
    ELSE ts[1] \o <<"|">> \o Join(Tail(ts))

\* the source of the pattern: `\\b(${terms.join('|')})\\b`
PatternSource(terms) == <<"\\", "b", "(">> \o Join(terms) \o <<")", "\\", "b">>

Char(c) == [t |-> "char", c |-> c, alternatives |-> <<>>]

AnyChar == [t |-> "any", c |-> ".", alternatives |-> <<>>]

WordBoundary == [t |-> "boundary", c |-> "b", alternatives |-> <<>>]

Group(alternatives) == [t |-> "group", c |-> "(", alternatives |-> alternatives]

SyntaxError == [ok |-> FALSE, node |-> AnyChar, items |-> <<>>, alternatives |-> <<>>, next |-> 0]

\* The pattern compiler (the Pattern grammar of the language, for the syntax
\* characters of the model): Disjunction :: Alternative | Alternative "|" Disjunction,
\* Alternative :: Term*, Atom :: "." | "\b" | "(" Disjunction ")" | character.
\* Each parser reads src from position i and returns where it stopped.
RECURSIVE ParseDisjunction(_, _)
RECURSIVE ParseAlternative(_, _)
RECURSIVE ParseAtom(_, _)
ParseAtom(src, i) ==
    IF src[i] = "("
    THEN LET d == ParseDisjunction(src, i + 1)
         IN IF d.ok /\ d.next <= Len(src) /\ src[d.next] = ")"
            THEN [SyntaxError EXCEPT !.ok = TRUE, !.node = Group(d.alternatives), !.next = d.next + 1]
            ELSE SyntaxError
    ELSE IF src[i] = "\\"
    THEN IF i < Len(src) /\ src[i + 1] = "b"
         THEN [SyntaxError EXCEPT !.ok = TRUE, !.node = WordBoundary, !.next = i + 2]
         ELSE SyntaxError
    ELSE IF src[i] = "."
    THEN [SyntaxError EXCEPT !.ok = TRUE, !.node = AnyChar, !.next = i + 1]
    ELSE [SyntaxError EXCEPT !.ok = TRUE, !.node = Char(src[i]), !.next = i + 1]

ParseAlternative(src, i) ==
    IF i > Len(src) \/ src[i] \in {"|", ")"}
    THEN [SyntaxError EXCEPT !.ok = TRUE, !.next = i]
    ELSE LET a == ParseAtom(src, i)
         IN IF ~a.ok THEN SyntaxError
            ELSE LET rest == ParseAlternative(src, a.next)
                 IN IF ~rest.ok THEN SyntaxError
                    ELSE [rest EXCEPT !.items = <<a.node>> \o rest.items]

ParseDisjunction(src, i) ==
    LET a == ParseAlternative(src, i)
    IN IF ~a.ok THEN SyntaxError
       ELSE IF a.next <= Len(src) /\ src[a.next] = "|"
       THEN LET rest == ParseDisjunction(src, a.next + 1)
            IN IF ~rest.ok THEN SyntaxError
               ELSE [rest EXCEPT !.alternatives = <<a.items>> \o rest.alternatives]
       ELSE [SyntaxError EXCEPT !.ok = TRUE, !.alternatives = <<a.items>>, !.next = a.next]

\* new RegExp(source, 'gi'): the pattern is valid when the whole source is
\* one Disjunction (an unmatched parenthesis is a SyntaxError);
\* alternatives is its compiled form
NewRegExp(terms) ==
    LET source == PatternSource(terms)
        d == ParseDisjunction(source, 1)
    IN [source |-> source, flags |-> "gi",
        valid |-> d.ok /\ d.next = Len(source) + 1,
        alternatives |-> d.alternatives]

\* The matcher, by backtracking: the positions at which a match that starts
\* at position i can end, in the order the matcher tries them.  Alternation
\* is ordered (left alternative first) and a sequence tries each way of
\* matching its first item with every way of matching the rest.
RECURSIVE AtomEnds(_, _, _)
RECURSIVE AlternativeEnds(_, _, _, _)
RECURSIVE Continue(_, _, _, _, _)
RECURSIVE DisjunctionEnds(_, _, _, _)
AtomEnds(node, s, i) ==
    IF node.t = "char"
    THEN IF i < Len(s) /\ Canonicalize(node.c) = Canonicalize(s[i + 1]) THEN <<i + 1>> ELSE <<>>
    ELSE IF node.t = "any"
    THEN IF i < Len(s) THEN <<i + 1>> ELSE <<>>
    ELSE IF node.t = "boundary"
    THEN IF IsWordBoundary(s, i) THEN <<i>> ELSE <<>>
    ELSE DisjunctionEnds(node.alternatives, 1, s, i)

\* the items of an alternative from number k on
AlternativeEnds(items, k, s, i) ==
    IF k > Len(items) THEN <<i>>
    ELSE Continue(items, k, s, AtomEnds(items[k], s, i), 1)

Continue(items, k, s, ends, j) ==
    IF j > Len(ends) THEN <<>>
    ELSE AlternativeEnds(items, k + 1, s, ends[j]) \o Continue(items, k, s, ends, j + 1)

\* the alternatives of a disjunction from number n on
DisjunctionEnds(alternatives, n, s, i) ==
    IF n > Len(alternatives) THEN <<>>
    ELSE AlternativeEnds(alternatives[n], 1, s, i)
            \o DisjunctionEnds(alternatives, n + 1, s, i)

\* the match at position i: the first end the matcher reaches
MatchAt(regex, s, i) ==
    LET ends == DisjunctionEnds(regex.alternatives, 1, s, i)
    IN IF ends = <<>> THEN [found |-> FALSE, end |-> i]
       ELSE [found |-> TRUE, end |-> ends[1]]

-----------------------------------------------------------------------------
(* processContent, line 30: text.matchAll(regex) *)

NoMatch == [index |-> 0, length |-> 0, found |-> FALSE]

\* RegExpBuiltinExec from lastIndex: the leftmost position with a match
RECURSIVE Exec(_, _, _)
Exec(regex, s, lastIndex) ==
    IF lastIndex > Len(s) THEN NoMatch
    ELSE LET m == MatchAt(regex, s, lastIndex)
         IN IF m.found
            THEN [index |-> lastIndex, length |-> m.end - lastIndex, found |-> TRUE]
            ELSE Exec(regex, s, lastIndex + 1)

\* lastIndex after a match: its end; after an empty match AdvanceStringIndex
LastIndexAfter(index, length) ==
    IF length = 0 THEN index + 1 ELSE index + length

\* the matches as [index, length], in order
RECURSIVE MatchAllFrom(_, _, _)
MatchAllFrom(regex, s, lastIndex) ==
    LET match == Exec(regex, s, lastIndex)
    IN IF ~match.found THEN <<>>
       ELSE <<[index |-> match.index, length |-> match.length]>>
                \o MatchAllFrom(regex, s, LastIndexAfter(match.index, match.length))

\* the search starts from a stale lastIndex
MatchAllFromStaleLastIndex(regex, s) == MatchAllFrom(regex, s, 1)

\* matchAll searches a clone of regex, whose lastIndex is 0
MatchAll(regex, s) == MatchAllFrom(regex, s, 0)

-----------------------------------------------------------------------------
(* processContent, lines 32-62 *)

TextPart(c) == [type |-> "text", content |-> c]

TermPart(term, defs) ==
    [type |-> "term", content |-> term, definition |-> Lookup(defs, LowerCase(term))]

\* currentPos moved one character past the start of the term
CurrentPosOneAhead(startPos, term) == startPos + 1

\* line 51: currentPos = startPos + term.length
CurrentPosAfter(startPos, term) == startPos + Len(term)

\* one call of the forEach callback (lines 32-52) on the accumulator
\* acc = [parts, spans, currentPos]
ForEachMatch(text, defs, match, acc) ==
    LET term == Slice(text, match.index, match.index + match.length)
        startPos == match.index
        before == IF startPos > acc.currentPos
                  THEN [parts |-> Append(acc.parts,
                                         TextPart(Slice(text, acc.currentPos, startPos))),
                        spans |-> Append(acc.spans, <<acc.currentPos, startPos>>)]
                  ELSE [parts |-> acc.parts, spans |-> acc.spans]
    IN [parts |-> Append(before.parts, TermPart(term, defs)),
        spans |-> Append(before.spans, <<startPos, startPos + Len(term)>>),
        currentPos |-> CurrentPosAfter(startPos, term)]

RECURSIVE ForEach(_, _, _, _, _)
ForEach(text, defs, matches, n, acc) ==
    IF n > Len(matches) THEN acc
    ELSE ForEach(text, defs, matches, n + 1, ForEachMatch(text, defs, matches[n], acc))

\* processContent(text) with the definitions of its closure; the spans are
\* the slice positions it used, kept beside the parts.  An invalid pattern
\* makes new RegExp throw (line 29) and nothing is returned.
ProcessContent(text, defs) ==
    IF text = <<>> THEN [threw |-> FALSE, parts |-> <<>>, spans |-> <<>>]
    ELSE
        LET terms == SortTerms(ObjectKeys(defs))
            regex == NewRegExp(terms)
            matches == MatchAll(regex, text)
            acc == ForEach(text, defs, matches, 1,
                           [parts |-> <<>>, spans |-> <<>>, currentPos |-> 0])
        IN IF ~regex.valid
           THEN [threw |-> TRUE, parts |-> <<>>, spans |-> <<>>]
           ELSE IF acc.currentPos < Len(text)
           THEN [threw |-> FALSE,
                 parts |-> Append(acc.parts, TextPart(Slice(text, acc.currentPos, Len(text)))),
                 spans |-> Append(acc.spans, <<acc.currentPos, Len(text)>>)]
           ELSE [threw |-> FALSE, parts |-> acc.parts, spans |-> acc.spans]

-----------------------------------------------------------------------------
(* The component *)

Modules == 1..Len(content)

NotRendered == <<>>

\* the term parts of module m that render an Alert (part.definition truthy)
AlertIndexes(parts) ==
    {i \in 1..Len(parts) : parts[i].type = "term" /\ parts[i].definition # Undefined}

\* AdviceModule renders: processContent(content), and every Alert carries
\* className "mt-2 hidden".  When processContent throws, the render fails
\* and the module shows nothing.
Render(m) ==
    /\ m \in Modules
    /\ ~mounted[m]
    /\ ~threw[m]
    /\ \E r \in {ProcessContent(content[m], definitions)} :
          IF r.threw
          THEN /\ threw' = [threw EXCEPT ![m] = TRUE]
               /\ UNCHANGED <<mounted, processedContent, sourceSpans, hidden>>
          ELSE /\ processedContent' = [processedContent EXCEPT ![m] = r.parts]
               /\ sourceSpans' = [sourceSpans EXCEPT ![m] = r.spans]
               /\ hidden' = [hidden EXCEPT ![m] = AlertIndexes(r.parts)]
               /\ mounted' = [mounted EXCEPT ![m] = TRUE]
               /\ threw' = threw
    /\ UNCHANGED <<definitions, content, copied, writes, timers, copyCount, lastClick, lastCopy>>

\* the Alerts in the document, in document order, that carry this id
ElementsWithId(index) ==
    {m \in Modules : mounted[m] /\ index \in AlertIndexes(processedContent[m])}

\* document.getElementById(`definition-${index}`): the first element of the
\* document with that id
GetElementById(index) ==
    CHOOSE m \in ElementsWithId(index) : \A k \in ElementsWithId(index) : m <= k

\* lines 91-96: the onClick of the term span number index of module m
ClickTerm(m, index) ==
    /\ m \in Modules
    /\ mounted[m]
    /\ index \in 1..Len(processedContent[m])
    /\ processedContent[m][index].type = "term"
    /\ IF processedContent[m][index].definition # Undefined
       THEN LET owner == GetElementById(index)
            IN hidden' = [hidden EXCEPT ![owner] = @ \ {index}]
       ELSE hidden' = hidden
    /\ lastClick' = <<m, index>>
    /\ UNCHANGED <<definitions, content, mounted, threw, processedContent, sourceSpans,
                   copied, writes, timers, copyCount, lastCopy>>

\* lines 9-11: a click on the copy button starts clipboard.writeText(content)
CopyText(m) ==
    /\ m \in Modules
    /\ mounted[m]
    /\ copyCount < MaxCopies
    /\ copyCount' = copyCount + 1
    /\ writes' = [writes EXCEPT ![m] = @ + 1]
    /\ UNCHANGED <<definitions, content, mounted, threw, processedContent, sourceSpans,
                   hidden, copied, timers, lastClick, lastCopy>>

NextCopyId ==
    LET ids == {lastCopy[m] : m \in Modules}
    IN (CHOOSE n \in ids : \A k \in ids : k <= n) + 1

\* lines 12-13: the write succeeded: setCopied(true) and a 2000 ms timeout
WriteTextResolved(m) ==
    /\ m \in Modules
    /\ writes[m] > 0
    /\ writes' = [writes EXCEPT ![m] = @ - 1]
    /\ copied' = [copied EXCEPT ![m] = TRUE]
    /\ timers' = Append(timers, [module |-> m, copy |-> NextCopyId])
    /\ lastCopy' = [lastCopy EXCEPT ![m] = NextCopyId]
    /\ UNCHANGED <<definitions, content, mounted, threw, processedContent, sourceSpans,
                   hidden, copyCount, lastClick>>

\* lines 14-16: the write failed: console.error only
WriteTextRejected(m) ==
    /\ m \in Modules
    /\ writes[m] > 0
    /\ writes' = [writes EXCEPT ![m] = @ - 1]
    /\ UNCHANGED <<definitions, content, mounted, threw, processedContent, sourceSpans,
                   hidden, copied, timers, copyCount, lastClick, lastCopy>>

\* line 13: the oldest timeout fires (all delays are equal, so timeouts fire
\* in the order they were set): setCopied(false)
TimeoutFires ==
    /\ timers # <<>>
    /\ copied' = [copied EXCEPT ![Head(timers).module] = FALSE]
    /\ timers' = Tail(timers)
    /\ UNCHANGED <<definitions, content, mounted, threw, processedContent, sourceSpans,
                   hidden, writes, copyCount, lastClick, lastCopy>>

InitPage(contents) ==
    /\ content \in contents
    /\ mounted = [m \in 1..Len(content) |-> FALSE]
    /\ threw = [m \in 1..Len(content) |-> FALSE]
    /\ processedContent = [m \in 1..Len(content) |-> NotRendered]
    /\ sourceSpans = [m \in 1..Len(content) |-> <<>>]
    /\ hidden = [m \in 1..Len(content) |-> {}]
    /\ copied = [m \in 1..Len(content) |-> FALSE]
    /\ writes = [m \in 1..Len(content) |-> 0]
    /\ timers = <<>>
    /\ copyCount = 0
    /\ lastClick = <<0, 0>>
    /\ lastCopy = [m \in 1..Len(content) |-> 0]

\* One AdviceModule, any text, any definitions
Init ==
    /\ definitions \in DefinitionMaps
    /\ InitPage({<<t>> : t \in Texts})

Next == Render(1)

\* the highlighter on every input over the alphabet
Spec == Init /\ [][Next]_vars

WideInit ==
    /\ definitions \in WideDefinitionMaps
    /\ InitPage({<<t>> : t \in WideTexts})

\* the highlighter on every input over the wide alphabet
WideSpec == WideInit /\ [][Next]_vars

SyntaxInit ==
    /\ definitions \in SyntaxDefinitionMaps
    /\ InitPage({<<t>> : t \in SyntaxTexts})

\* the highlighter on every input over the syntax alphabet
SyntaxSpec == SyntaxInit /\ [][Next]_vars

\* A page of NumModules AdviceModules sharing one glossary of non-empty terms
PageTexts == SeqsUpTo(WideAlphabet, MaxPageTextLen)

PageInit ==
    /\ definitions \in ObjectsOver(PageTexts \ {<<>>}, MaxPageTerms)
    /\ InitPage([1..NumModules -> PageTexts])

PageNext ==
    \/ \E m \in 1..NumModules : Render(m)
    \/ \E m \in 1..NumModules : \E index \in 1..Len(processedContent[m]) : ClickTerm(m, index)
    \/ \E m \in 1..NumModules : CopyText(m)
    \/ \E m \in 1..NumModules : WriteTextResolved(m)
    \/ \E m \in 1..NumModules : WriteTextRejected(m)
    \/ TimeoutFires

\* the display layer under every interleaving of clicks, promise
\* settlements and timeouts
PageSpec == PageInit /\ [][PageNext]_vars

-----------------------------------------------------------------------------
(* Vocabulary of the properties *)

RECURSIVE Concat(_)
Concat(parts) ==
    IF parts = <<>> THEN <<>> ELSE Head(parts).content \o Concat(Tail(parts))

EqualsIgnoreCase(a, b) ==
    /\ Len(a) = Len(b)
    /\ \A j \in 1..Len(a) : Canonicalize(a[j]) = Canonicalize(b[j])

\* key k stands in the text at position p, in any letter casing
OccursAt(k, text, p) ==
    /\ p + Len(k) <= Len(text)
    /\ EqualsIgnoreCase(k, Slice(text, p, p + Len(k)))

\* ... and as a whole word: \b holds on both sides
WholeWordAt(k, text, p) ==
    /\ OccursAt(k, text, p)
    /\ IsWordBoundary(text, p)
    /\ IsWordBoundary(text, p + Len(k))

\* the occurrence at p is immediately preceded or followed by a word character
Embedded(k, text, p) ==
    \/ p > 0 /\ IsWordChar(text[p])
    \/ p + Len(k) < Len(text) /\ IsWordChar(text[p + Len(k) + 1])

OnlyEmbedded(k, text) ==
    \A p \in 0..Len(text) : OccursAt(k, text, p) => Embedded(k, text, p)

\* k begins and ends with a word character
WordEdged(k) == k # <<>> /\ IsWordChar(k[1]) /\ IsWordChar(k[Len(k)])

\* k holds a character the pattern syntax gives a meaning to
HasSpecial(k) == \E j \in 1..Len(k) : k[j] \in {".", "|", "(", ")"}

TermIndexes(m) ==
    {i \in 1..Len(processedContent[m]) : processedContent[m][i].type = "term"}

\* position p lies inside a term part that starts before p
InsideEarlierMatch(m, p) ==
    \E i \in TermIndexes(m) : sourceSpans[m][i][1] < p /\ p < sourceSpans[m][i][2]

TheRegExp == NewRegExp(SortTerms(ObjectKeys(definitions)))

-----------------------------------------------------------------------------
(* Properties *)

\* C1: the contents of the parts processContent returns, concatenated in
\* order, are the input text.
C1_Coverage ==
    \A m \in Modules : mounted[m] => Concat(processedContent[m]) = content[m]

\* a plain part, then a term part of two characters
C1_Witness ==
    \E m \in Modules :
        /\ mounted[m]
        /\ Len(processedContent[m]) = 2
        /\ processedContent[m][1].type = "text"
        /\ processedContent[m][2].type = "term"
        /\ Len(processedContent[m][2].content) = 2

\* C2: with no definitions and a non-empty text, processContent returns the
\* one plain-text part holding the whole text.
C2_EmptyDefinitions ==
    \A m \in Modules :
        (mounted[m] /\ definitions = <<>> /\ content[m] # <<>>)
            => /\ Len(processedContent[m]) = 1
               /\ processedContent[m][1].type = "text"
               /\ processedContent[m][1].content = content[m]

\* C3: where several keys stand as whole words at one position that no
\* earlier match covers, a term part starts there and it is the longest of them.
C3_LongestMatch ==
    \A m \in Modules : mounted[m] =>
        \A p \in 0..Len(content[m]) :
            LET here == {k \in KeySet(definitions) : WholeWordAt(k, content[m], p)}
            IN (Cardinality(here) >= 2 /\ ~InsideEarlierMatch(m, p)) =>
                  \E i \in TermIndexes(m) :
                      /\ sourceSpans[m][i][1] = p
                      /\ \E k \in here : EqualsIgnoreCase(k, processedContent[m][i].content)
                      /\ \A k \in here : Len(k) <= Len(processedContent[m][i].content)

\* C4: a key whose every occurrence in the text is immediately preceded or
\* followed by a word character is the content of no term part.  It is stated
\* for the keys the whole-word rule is about, those that begin and end with a
\* word character (as "rente" inside "renteaftrek").
C4_WholeWord ==
    \A m \in Modules : mounted[m] =>
        \A k \in KeySet(definitions) :
            (WordEdged(k) /\ OnlyEmbedded(k, content[m])) =>
                ~\E i \in TermIndexes(m) : EqualsIgnoreCase(processedContent[m][i].content, k)

\* C5: with lowercase keys, a whole-word occurrence of a key in any casing
\* (not covered by an earlier match, no longer key standing there) is a term
\* part with the text's own casing and the key's definition.
C5_CaseInsensitive ==
    \A m \in Modules :
        (mounted[m] /\ \A k \in KeySet(definitions) : LowerCase(k) = k) =>
            \A k \in KeySet(definitions) : \A p \in 0..Len(content[m]) :
                (/\ WholeWordAt(k, content[m], p)
                 /\ ~InsideEarlierMatch(m, p)
                 /\ ~\E k2 \in KeySet(definitions) :
                        Len(k2) > Len(k) /\ WholeWordAt(k2, content[m], p))
                => \E i \in TermIndexes(m) :
                      /\ sourceSpans[m][i] = <<p, p + Len(k)>>
                      /\ processedContent[m][i].content = Slice(content[m], p, p + Len(k))
                      /\ processedContent[m][i].definition = Lookup(definitions, k)

\* C6: every term part is a key in some casing, standing as a whole word, and
\* it has a definition exactly when its lowercased content is a key.
C6_TermParts ==
    \A m \in Modules : mounted[m] =>
        \A i \in TermIndexes(m) :
            /\ \E k \in KeySet(definitions) :
                  WholeWordAt(k, content[m], sourceSpans[m][i][1])
                  /\ Len(k) = Len(processedContent[m][i].content)
            /\ processedContent[m][i].definition # Undefined
                  <=> LowerCase(processedContent[m][i].content) \in KeySet(definitions)

\* C7: when a key holds a special character, the pattern still matches only
\* literal occurrences of keys: every term part spans a place where some key
\* stands character for character.
C7_Escaped ==
    \A m \in Modules :
        (mounted[m] /\ \E k \in KeySet(definitions) : HasSpecial(k)) =>
            \A i \in TermIndexes(m) :
                \E k \in KeySet(definitions) :
                    /\ sourceSpans[m][i] = <<sourceSpans[m][i][1], sourceSpans[m][i][1] + Len(k)>>
                    /\ OccursAt(k, content[m], sourceSpans[m][i][1])

C9_CopiedUntilOwnTimeout ==
    \A m \in Modules :
        (\E i \in 1..Len(timers) : timers[i].module = m /\ timers[i].copy = lastCopy[m])
            => copied[m]

\* C10: a click on a term part with a definition reveals that part's own
\* definition and nothing else; on a term part without one it changes nothing.
C10_RevealOwnDefinition ==
    [][\A m \in Modules : \A index \in 1..Len(processedContent[m]) :
          ClickTerm(m, index) =>
              hidden' = IF processedContent[m][index].definition # Undefined
                        THEN [hidden EXCEPT ![m] = @ \ {index}]
                        ELSE hidden]_vars

=============================================================================
